---- MODULE Spec2Model ----
(***************************************************************************)
(* The kubernetes control dispatcher of the probe: the Capture adapters,   *)
(* the control handlers, the stream-to-pipe bridge and the registration of *)
(* the controls, as written in the two revisions of controls.go            *)
(* (src/unnamed/part_000 and src/unnamed/part_001).                        *)
(*                                                                         *)
(* Go strings that are parsed or compared are sequences of tokens; the     *)
(* empty string is the empty sequence <<>>.                                *)
(***************************************************************************)
EXTENDS Naturals, Sequences, FiniteSets, TLC

\* Longest cache walk (number of resource handles a store holds).
MaxCache == 2
\* Number of streams the client hands out in one behaviour.
MaxStreams == 1
\* Number of bytes a stream of the client produces.
MaxBytes == 2
\* Number of bytes written to a pipe.
MaxWrites == 1

\* The two revisions of controls.go.
Revisions == {"part_000", "part_001"}

-----------------------------------------------------------------------------
(* report: node identifiers                                                *)

ScopeDelim == ";"

\* The tag each resource kind's node identifier ends with.
KindTag ==
  [k \in {"Pod", "Deployment", "PersistentVolumeClaim", "PersistentVolume",
          "VolumeSnapshot", "Service", "DaemonSet", "CronJob", "StatefulSet",
          "StorageClass"} |->
     CASE k = "Pod" -> "<pod>"
       [] k = "Deployment" -> "<deployment>"
       [] k = "PersistentVolumeClaim" -> "<persistent_volume_claim>"
       [] k = "PersistentVolume" -> "<persistent_volume>"
       [] k = "VolumeSnapshot" -> "<volume_snapshot>"
       [] k = "Service" -> "<service>"
       [] k = "DaemonSet" -> "<daemonset>"
       [] k = "CronJob" -> "<cronjob>"
       [] k = "StatefulSet" -> "<statefulset>"
       [] k = "StorageClass" -> "<storage_class>"]

Kinds == DOMAIN KindTag

\* id + ScopeDelim + "<tag>"
makeSingleComponentID(tag, id) == id \o <<ScopeDelim, tag>>

\* strings.SplitN(s, sep, 2): the text before and after the first separator.
split2(s) ==
  LET at == {i \in 1..Len(s) : s[i] = ScopeDelim}
  IN IF at = {} THEN [ok |-> FALSE, field0 |-> <<>>, field1 |-> <<>>]
     ELSE LET i == CHOOSE j \in at : \A k \in at : j <= k
          IN [ok |-> TRUE, field0 |-> SubSeq(s, 1, i - 1),
              field1 |-> SubSeq(s, i + 1, Len(s))]

parseSingleComponentID(tag, id) ==
  LET f == split2(id)
  IN IF ~f.ok \/ f.field1 # <<tag>> THEN [uid |-> <<>>, ok |-> FALSE]
     ELSE [uid |-> f.field0, ok |-> TRUE]

ParsePodNodeID(id) == parseSingleComponentID(KindTag["Pod"], id)
ParseDeploymentNodeID(id) == parseSingleComponentID(KindTag["Deployment"], id)
ParsePersistentVolumeClaimNodeID(id) ==
  parseSingleComponentID(KindTag["PersistentVolumeClaim"], id)
ParsePersistentVolumeNodeID(id) ==
  parseSingleComponentID(KindTag["PersistentVolume"], id)
ParseVolumeSnapshotNodeID(id) ==
  parseSingleComponentID(KindTag["VolumeSnapshot"], id)
ParseServiceNodeID(id) == parseSingleComponentID(KindTag["Service"], id)
ParseDaemonSetNodeID(id) == parseSingleComponentID(KindTag["DaemonSet"], id)
ParseCronJobNodeID(id) == parseSingleComponentID(KindTag["CronJob"], id)
ParseStatefulSetNodeID(id) == parseSingleComponentID(KindTag["StatefulSet"], id)
ParseStorageClassNodeID(id) ==
  parseSingleComponentID(KindTag["StorageClass"], id)

-----------------------------------------------------------------------------
(* xfer: responses                                                         *)

\* xfer.Response{}: no field populated.
EmptyResponse == [value |-> <<>>, removedNode |-> <<>>, pipe |-> <<>>, error |-> <<>>]

\* An error value: nil, or an error with its message.
NilError == [isNil |-> TRUE, msg |-> <<>>]
Error(m) == [isNil |-> FALSE, msg |-> m]

\* xfer.ResponseError(err): the message of err, or the empty response for nil.
ResponseError(err) ==
  IF err.isNil THEN EmptyResponse ELSE [EmptyResponse EXCEPT !.error = err.msg]

\* xfer.ResponseErrorf(format, arg)
ResponseErrorf(format, arg) == [EmptyResponse EXCEPT !.error = <<format>> \o arg]

\* The fields of a response that are populated.
Populated(resp) == {f \in DOMAIN resp : resp[f] # <<>>}

\* The identifier of the n-th pipe NewPipeFromEnds creates ("pipe-<n>").
PipeID(n) == <<"pipe", n>>

-----------------------------------------------------------------------------
(* The collaborators' values                                               *)

\* A resource handle of the cache, with the accessors the adapters read.
Handle(uid, ns, name, containers, capacity, volume) ==
  [uid |-> uid, namespace |-> ns, name |-> name, containerNames |-> containers,
   capacity |-> capacity, volumeName |-> volume]

\* The resources a store can hold: two that share a unique id.
Handles ==
  {Handle(<<"abc">>, "ns1", "foo", <<"c1">>, "1Gi", "vol1"),
   Handle(<<"abc">>, "ns2", "bar", <<"c2", "c3">>, "2Gi", "vol2")}

\* report.MakeVolumeSnapshotNodeID
MakeVolumeSnapshotNodeID(uid) == makeSingleComponentID(KindTag["VolumeSnapshot"], uid)

\* The probes that publish nodes.
ProbeIDs == {"probe1"}

\* GetNode advertising the control of pods on a volume snapshot.
GetNode_AdvertisesDeletePod(p, probeID) ==
  [id |-> MakeVolumeSnapshotNodeID(p.uid),
   latest |-> [controlProbeID |-> probeID, nodeType |-> "Volume Snapshot",
               name |-> p.name],
   activeControls |-> {"DeletePod"}]

\* GetNode publishing a volume snapshot under a pod's node identifier.
GetNode_PodID(p, probeID) ==
  [id |-> makeSingleComponentID(KindTag["Pod"], p.uid),
   latest |-> [controlProbeID |-> probeID, nodeType |-> "Volume Snapshot",
               name |-> p.name],
   activeControls |-> {"DeleteVolumeSnapshot"}]

\* volumeSnapshot.GetNode: the node the probe publishes for the volume
\* snapshot p.
GetNode(p, probeID) ==
  [id |-> MakeVolumeSnapshotNodeID(p.uid),
   latest |-> [controlProbeID |-> probeID, nodeType |-> "Volume Snapshot",
               name |-> p.name],
   activeControls |-> {"DeleteVolumeSnapshot"}]

\* The unique ids a request names; "zzz" is in no store.
UIDs == {<<"abc">>, <<"zzz">>}

\* Every walk of at most MaxCache handles.
RECURSIVE SeqsUpTo(_, _)
SeqsUpTo(S, n) ==
  IF n = 0 THEN {<<>>}
  ELSE LET shorter == SeqsUpTo(S, n - 1)
       IN shorter \cup {Append(s, x) : s \in shorter, x \in S}

Caches == SeqsUpTo(Handles, MaxCache)

\* The messages of the errors the client and the pipe registry return.
ErrMsgs == {<<"boom">>, <<"denied">>}

\* What a call on the cluster-management client returns.
ClientResults == {NilError} \cup {Error(m) : m \in ErrMsgs}

\* The application sessions a request comes from.
AppIDs == {"app1"}

\* ResourceMap[kind]: the group and kind Describe is given.
ResourceMap == [k \in Kinds |-> <<"GroupKind", k>>]

\* report.Deployment, the topology name ScaleUp and ScaleDown pass.
ReportDeployment == "deployment"

\* One call on the cluster-management client, and the error it returned.
Call(op, args, err) == [op |-> op, args |-> args, err |-> err]

-----------------------------------------------------------------------------
(* Control identifiers and the handler each is registered with             *)

\* A registered handler: the Capture adapter and the continuation it wraps.
Handler(capture, f) == [capture |-> capture, f |-> f]

\* A handler another part of the probe registered.
ExternalHandler == Handler("external", "external")

\* Control ids other parts of the probe register in the same registry.
Unrelated == {"docker_stop_container"}

\* The controls map registerControls builds.
registerControlsMap(r) ==
  IF r = "part_000"
  THEN [c \in {"GetLogs", "CreateSnapshot", "DeletePod", "DeleteVolumeSnapshot",
               "ScaleUp", "ScaleDown"} |->
          CASE c = "GetLogs" -> Handler("CapturePod", "GetLogs")
            [] c = "CreateSnapshot" -> Handler("CapturePersistentVolume", "createSnapshot")
            [] c = "DeletePod" -> Handler("CapturePod", "deletePod")
            [] c = "DeleteVolumeSnapshot" ->
                 Handler("CaptureVolumeSnapshot", "deleteVolumeSnapshot")
            [] c = "ScaleUp" -> Handler("CaptureDeployment", "ScaleUp")
            [] c = "ScaleDown" -> Handler("CaptureDeployment", "ScaleDown")]
  ELSE [c \in {"CloneVolumeSnapshot", "CreateVolumeSnapshot", "GetLogs",
               "DescribePod", "DescribeService", "DescribeCronJob",
               "DescribeDeployment", "DescribeDaemonSet", "DescribePVC",
               "DescribePV", "DescribeSC", "DescribeStatefulSet", "DeletePod",
               "DeleteVolumeSnapshot", "ScaleUp", "ScaleDown"} |->
          CASE c = "CloneVolumeSnapshot" ->
                 Handler("CaptureVolumeSnapshot", "cloneVolumeSnapshot")
            [] c = "CreateVolumeSnapshot" ->
                 Handler("CapturePersistentVolumeClaim", "createVolumeSnapshot")
            [] c = "GetLogs" -> Handler("CapturePod", "GetLogs")
            [] c = "DescribePod" -> Handler("CapturePod", "describePod")
            [] c = "DescribeService" -> Handler("CaptureService", "describe")
            [] c = "DescribeCronJob" -> Handler("CaptureCronJob", "describe")
            [] c = "DescribeDeployment" -> Handler("CaptureDeployment", "describe")
            [] c = "DescribeDaemonSet" -> Handler("CaptureDaemonSet", "describe")
            [] c = "DescribePVC" ->
                 Handler("CapturePersistentVolumeClaim", "describePVC")
            [] c = "DescribePV" -> Handler("CapturePersistentVolume", "describe")
            [] c = "DescribeSC" -> Handler("CaptureStorageClass", "describe")
            [] c = "DescribeStatefulSet" -> Handler("CaptureStatefulSet", "describe")
            [] c = "DeletePod" -> Handler("CapturePod", "deletePod")
            [] c = "DeleteVolumeSnapshot" ->
                 Handler("CaptureVolumeSnapshot", "deleteVolumeSnapshot")
            [] c = "ScaleUp" -> Handler("CaptureDeployment", "ScaleUp")
            [] c = "ScaleDown" -> Handler("CaptureDeployment", "ScaleDown")]

\* The controls list deregisterControls builds.
deregisterControlsList(r) ==
  IF r = "part_000"
  THEN <<"GetLogs", "CreateSnapshot", "DeletePod", "DeleteVolumeSnapshot",
         "ScaleUp", "ScaleDown">>
  ELSE <<"CloneVolumeSnapshot", "CreateVolumeSnapshot", "GetLogs", "DeletePod",
         "DeleteVolumeSnapshot", "ScaleUp", "ScaleDown">>

\* The control identifiers of this core, in either revision.
ControlIDs ==
  DOMAIN registerControlsMap("part_000") \cup DOMAIN registerControlsMap("part_001")

\* HandlerRegistry.Batch: under the registry's lock, remove the ids of
\* toRemove, then bind every id of toAdd.
Batch(registry, toRemove, toAdd) ==
  LET removed == {toRemove[i] : i \in 1..Len(toRemove)}
      kept == DOMAIN registry \ removed
  IN [c \in kept \cup DOMAIN toAdd |->
        IF c \in DOMAIN toAdd THEN toAdd[c] ELSE registry[c]]

-----------------------------------------------------------------------------
(* Requests                                                                *)

Request(appID, nodeID, control) ==
  [appID |-> appID, nodeID |-> nodeID, control |-> control]

\* The node identifiers a request carries: the identifier of every kind for
\* every unique id, and one without a delimiter.
NodeIDs ==
  {makeSingleComponentID(KindTag[k], u) : k \in Kinds, u \in UIDs}
    \cup {<<"abc">>}

Requests ==
  {Request(a, n, c) : a \in AppIDs, n \in NodeIDs, c \in ControlIDs}

-----------------------------------------------------------------------------
(* State                                                                   *)

VARIABLES
  rev,       \* the revision of controls.go the probe is built from
  phase,     \* "new", "running" (registerControls ran), "stopped"
  handlers,  \* r.handlerRegistry: control id -> handler
  handlers0, \* the registry as it was when the reporter was constructed
  cache,     \* the handles a walk of a store yields, in walk order
  streams,   \* the streams the client returned; closes counts Close() calls
  pipes,     \* the pipes NewPipeFromEnds registered
  d          \* the dispatch in flight, or the one that has just returned

vars == <<rev, phase, handlers, handlers0, cache, streams, pipes, d>>

NoRequest == Request("", <<>>, "")

\* No dispatch in flight.
Idle ==
  [pc |-> "idle", req |-> NoRequest, capture |-> "", walked |-> <<>>, sel |-> <<>>,
   cont |-> <<>>, calls |-> <<>>, resp |-> EmptyResponse, stream |-> 0, pipe |-> 0,
   pipeErr |-> FALSE]

\* A dispatch that has got as far as its adapter: the request, the adapter the
\* registry's handler was built by ("": no handler), the walks of the cache it
\* made (what each yielded), the handle selected (<<>>: none) and the
\* continuations invoked, each with the arguments it was given.
Progress(req, capture, walked, sel, cont) ==
  [Idle EXCEPT !.req = req, !.capture = capture, !.walked = walked, !.sel = sel,
               !.cont = cont]

\* The dispatch returns resp after the client calls of calls.
Returned(pre, calls, resp) ==
  [pre EXCEPT !.pc = "done", !.calls = calls, !.resp = resp]

TypeOK ==
  /\ rev \in Revisions
  /\ phase \in {"new", "running", "stopped"}
  /\ DOMAIN handlers \subseteq ControlIDs \cup Unrelated
  /\ cache \in Caches
  /\ Len(streams) <= MaxStreams
  /\ Len(pipes) <= Len(streams)
  /\ d.pc \in {"idle", "onclose", "done"}

Init ==
  /\ rev \in Revisions
  /\ phase = "new"
  /\ \E ext \in SUBSET Unrelated : handlers = [c \in ext |-> ExternalHandler]
  /\ handlers0 = handlers
  /\ cache \in Caches
  /\ streams = <<>>
  /\ pipes = <<>>
  /\ d = Idle

-----------------------------------------------------------------------------
(* Control handlers that return at once.  err is what the client returned. *)

\* What a handler did: its calls on the client and the response it returns.
Did(calls, resp) == [calls |-> calls, resp |-> resp]

cloneVolumeSnapshot(req, namespaceID, volumeSnapshotID, persistentVolumeClaimID, capacity, err) ==
  Did(<<Call("CloneVolumeSnapshot",
            <<namespaceID, volumeSnapshotID, persistentVolumeClaimID, capacity>>,
            err)>>,
      IF ~err.isNil THEN ResponseError(err) ELSE EmptyResponse)

createVolumeSnapshot(req, namespaceID, persistentVolumeClaimID, capacity, err) ==
  Did(<<Call("CreateVolumeSnapshot",
            <<namespaceID, persistentVolumeClaimID, capacity>>, err)>>,
      IF ~err.isNil THEN ResponseError(err) ELSE EmptyResponse)

\* part_000 only.
createSnapshot(req, persistentVolumeID, err) ==
  Did(<<Call("CreateSnapshot", <<persistentVolumeID>>, err)>>,
      IF ~err.isNil THEN ResponseError(err)
      ELSE [EmptyResponse EXCEPT !.value = <<req.control>>])

\* deletePod acknowledging with the control id as well as the removed node.
deletePod_TwoFields(req, namespaceID, podID, err) ==
  Did(<<Call("DeletePod", <<namespaceID, podID>>, err)>>,
      IF ~err.isNil THEN ResponseError(err)
      ELSE [EmptyResponse EXCEPT !.removedNode = req.nodeID, !.value = <<req.control>>])

\* deletePod passing the pod's name where the namespace goes.
deletePod_SwappedArgs(req, namespaceID, podID, err) ==
  Did(<<Call("DeletePod", <<podID, namespaceID>>, err)>>,
      IF ~err.isNil THEN ResponseError(err)
      ELSE [EmptyResponse EXCEPT !.removedNode = req.nodeID])

deletePod(req, namespaceID, podID, err) ==
  Did(<<Call("DeletePod", <<namespaceID, podID>>, err)>>,
      IF ~err.isNil THEN ResponseError(err)
      ELSE [EmptyResponse EXCEPT !.removedNode = req.nodeID])

\* deleteVolumeSnapshot reporting the node removed although the client failed.
deleteVolumeSnapshot_IgnoresError(req, namespaceID, volumeSnapshotID, err) ==
  Did(<<Call("DeleteVolumeSnapshot", <<namespaceID, volumeSnapshotID>>, err)>>,
      [EmptyResponse EXCEPT !.removedNode = req.nodeID])

deleteVolumeSnapshot(req, namespaceID, volumeSnapshotID, err) ==
  Did(<<Call("DeleteVolumeSnapshot", <<namespaceID, volumeSnapshotID>>, err)>>,
      IF ~err.isNil THEN ResponseError(err)
      ELSE [EmptyResponse EXCEPT !.removedNode = req.nodeID])

\* ScaleUp calling the client a second time when the first call failed.
ScaleUp_Retry(req, namespace, id, err) ==
  LET call == Call("ScaleUp", <<ReportDeployment, namespace, id>>, err)
  IN Did(IF err.isNil THEN <<call>> ELSE <<call, call>>, ResponseError(err))

ScaleUp(req, namespace, id, err) ==
  Did(<<Call("ScaleUp", <<ReportDeployment, namespace, id>>, err)>>,
      ResponseError(err))

ScaleDown(req, namespace, id, err) ==
  Did(<<Call("ScaleDown", <<ReportDeployment, namespace, id>>, err)>>,
      ResponseError(err))

\* The handler returns: the dispatch is over and no stream or pipe changed.
Reply(pre, did) ==
  /\ d' = Returned(pre, did.calls, did.resp)
  /\ UNCHANGED <<streams, pipes>>

-----------------------------------------------------------------------------
(* The stream-to-pipe bridge                                               *)

\* The bytes written to a pipe; the k-th byte a stream produces is k, so
\* none of them is one of these.
WrittenBytes == {0}

\* A stream the client returned (readCloser): closes counts its Close() calls,
\* produced is what the client has put into it so far, in order, and unread
\* what Read() will return next.
NewStream == [closes |-> 0, produced |-> <<>>, unread |-> <<>>]

\* The io.Reader of readWriter is readCloser: Read() takes the next byte of
\* the stream.
readWriterRead(stream) ==
  [byte |-> Head(stream.unread), stream |-> [stream EXCEPT !.unread = Tail(@)]]

\* A readWriter whose Write() hands the byte back to its reader.
readWriterWrite_Echo(stream, b) == [stream EXCEPT !.unread = Append(@, b)]

\* The io.Writer of readWriter is ioutil.Discard: Write() accepts the byte
\* and the stream never sees it.
readWriterWrite(stream, b) == stream

\* A pipe as NewPipeFromEnds registers it for the session appID: open, its
\* remote end reading the stream remote, with no OnClose callback.
\* onClose and running name a stream (0: none); running is the callback the
\* Close that closed the pipe took out and has not run yet; closedBy is the
\* side whose Close closed it; out is what has been read from the pipe, in
\* order, and written the number of bytes written to it.
NewPipe(appID, remote) ==
  [appID |-> appID, remote |-> remote, closed |-> FALSE, closedBy |-> "",
   onClose |-> 0, running |-> 0, out |-> <<>>, written |-> 0]

\* The sides that close a pipe.
Sides == {"remote", "local"}

\* GetLogs up to and including NewPipeFromEnds; OnClose is the next step.
GetLogs(pre, namespaceID, podID, containerNames) ==
  \E err \in ClientResults :
    LET call == Call("GetLogs", <<namespaceID, podID, containerNames>>, err)
    IN IF ~err.isNil
       THEN Reply(pre, Did(<<call>>, ResponseError(err)))
       ELSE /\ Len(streams) < MaxStreams
            /\ streams' = Append(streams, NewStream)
            /\ \E perr \in ClientResults :
                 LET got == [pre EXCEPT !.calls = <<call>>, !.stream = Len(streams) + 1]
                 IN IF ~perr.isNil
                    THEN /\ pipes' = pipes
                         /\ d' = [got EXCEPT !.pc = "done", !.pipeErr = TRUE,
                                             !.resp = ResponseError(perr)]
                    ELSE /\ pipes' = Append(pipes, NewPipe(pre.req.appID, Len(streams) + 1))
                         /\ d' = [got EXCEPT !.pc = "onclose", !.pipe = Len(pipes) + 1]

\* describe up to and including NewPipeFromEnds; OnClose is the next step.
describe(pre, namespaceID, resourceID, groupKind) ==
  \E err \in ClientResults :
    LET call == Call("Describe", <<namespaceID, resourceID, groupKind>>, err)
    IN IF ~err.isNil
       THEN Reply(pre, Did(<<call>>, ResponseError(err)))
       ELSE /\ Len(streams) < MaxStreams
            /\ streams' = Append(streams, NewStream)
            /\ \E perr \in ClientResults :
                 LET got == [pre EXCEPT !.calls = <<call>>, !.stream = Len(streams) + 1]
                 IN IF ~perr.isNil
                    THEN /\ pipes' = pipes
                         /\ d' = [got EXCEPT !.pc = "done", !.pipeErr = TRUE,
                                             !.resp = ResponseError(perr)]
                    ELSE /\ pipes' = Append(pipes, NewPipe(pre.req.appID, Len(streams) + 1))
                         /\ d' = [got EXCEPT !.pc = "onclose", !.pipe = Len(pipes) + 1]

describePod(pre, namespaceID, podID, groupKind) ==
  describe(pre, namespaceID, podID, groupKind)

describePVC(pre, namespaceID, pvcID, groupKind) ==
  describe(pre, namespaceID, pvcID, groupKind)

\* A handler that closes the stream itself as it returns.
OnClose_ClosesOnReturn ==
  /\ d.pc = "onclose"
  /\ pipes' = [pipes EXCEPT ![d.pipe].onClose = d.stream]
  /\ streams' = [streams EXCEPT ![d.stream].closes = @ + 1]
  /\ d' = [d EXCEPT !.pc = "done",
                    !.resp = [EmptyResponse EXCEPT !.pipe = PipeID(d.pipe)]]
  /\ UNCHANGED <<rev, phase, handlers, handlers0, cache>>

\* A handler that waits for the pipe to be closed before it returns.
OnClose_WaitsForClose ==
  /\ d.pc = "onclose"
  /\ pipes[d.pipe].closed
  /\ pipes' = [pipes EXCEPT ![d.pipe].onClose = d.stream]
  /\ d' = [d EXCEPT !.pc = "done",
                    !.resp = [EmptyResponse EXCEPT !.pipe = PipeID(d.pipe)]]
  /\ UNCHANGED <<rev, phase, handlers, handlers0, cache, streams>>

\* pipe.OnClose(func() { readCloser.Close() }), and the handler returns the
\* pipe's id.
OnClose ==
  /\ d.pc = "onclose"
  /\ pipes' = [pipes EXCEPT ![d.pipe].onClose = d.stream]
  /\ d' = [d EXCEPT !.pc = "done",
                    !.resp = [EmptyResponse EXCEPT !.pipe = PipeID(d.pipe)]]
  /\ UNCHANGED <<rev, phase, handlers, handlers0, cache, streams>>

\* pipe.Close() from one side: the first Close marks the pipe closed and takes
\* the callback out under the pipe's lock; a later Close finds it closed.
PipeClose(p, side) ==
  /\ pipes' = [pipes EXCEPT
                 ![p] = IF pipes[p].closed THEN pipes[p]
                        ELSE [pipes[p] EXCEPT !.closed = TRUE, !.closedBy = side,
                                              !.running = pipes[p].onClose]]
  /\ UNCHANGED <<rev, phase, handlers, handlers0, cache, streams, d>>

\* The Close that closed the pipe runs the callback it took: readCloser.Close().
RunOnClose(p) ==
  /\ pipes[p].running # 0
  /\ streams' = [streams EXCEPT ![pipes[p].running].closes = @ + 1]
  /\ pipes' = [pipes EXCEPT ![p].running = 0]
  /\ UNCHANGED <<rev, phase, handlers, handlers0, cache, d>>

-----------------------------------------------------------------------------
(* The Capture adapters                                                    *)

\* A walk whose callback keeps the first handle it matched.
RECURSIVE Walk_FirstMatch(_, _, _)
Walk_FirstMatch(store, uid, found) ==
  IF store = <<>> THEN found
  ELSE Walk_FirstMatch(Tail(store), uid,
                       IF Head(store).uid = uid /\ found = <<>>
                       THEN <<Head(store)>> ELSE found)

\* A walk whose callback does not compare the unique id.
Walk_AnyUID(store, uid, found) ==
  IF store = <<>> THEN found ELSE <<store[Len(store)]>>

\* r.client.Walk...(callback) over the handles of a store, with the adapter's
\* callback: every handle whose UID() is uid is assigned to the adapter's
\* variable in turn (<<>>: still nil).
RECURSIVE Walk(_, _, _)
Walk(store, uid, found) ==
  IF store = <<>> THEN found
  ELSE Walk(Tail(store), uid, IF Head(store).uid = uid THEN <<Head(store)>> ELSE found)

\* One invocation of a continuation.
Invocation(f, args) == [f |-> f, args |-> args]

\* f(req, args...): the continuation the adapter was built around.
Invoke(pre, f, args) ==
  CASE f = "GetLogs" -> GetLogs(pre, args[1], args[2], args[3])
    [] f = "describePod" -> describePod(pre, args[1], args[2], args[4])
    [] f = "describePVC" -> describePVC(pre, args[1], args[2], args[4])
    [] f = "describe" -> describe(pre, args[1], args[2], args[3])
    [] f = "cloneVolumeSnapshot" ->
         \E err \in ClientResults :
           Reply(pre, cloneVolumeSnapshot(pre.req, args[1], args[2], args[3], args[4], err))
    [] f = "createVolumeSnapshot" ->
         \E err \in ClientResults :
           Reply(pre, createVolumeSnapshot(pre.req, args[1], args[2], args[3], err))
    [] f = "createSnapshot" ->
         \E err \in ClientResults : Reply(pre, createSnapshot(pre.req, args[1], err))
    [] f = "deletePod" ->
         \E err \in ClientResults : Reply(pre, deletePod(pre.req, args[1], args[2], err))
    [] f = "deleteVolumeSnapshot" ->
         \E err \in ClientResults :
           Reply(pre, deleteVolumeSnapshot(pre.req, args[1], args[2], err))
    [] f = "ScaleUp" ->
         \E err \in ClientResults : Reply(pre, ScaleUp(pre.req, args[1], args[2], err))
    [] f = "ScaleDown" ->
         \E err \in ClientResults : Reply(pre, ScaleDown(pre.req, args[1], args[2], err))

\* The registry's lookup of the request's control finds a handler built by the
\* adapter named capture.
Bound(req, capture) ==
  /\ req.control \in DOMAIN handlers
  /\ handlers[req.control].capture = capture

\* The arguments each adapter passes to its continuation from the handle it
\* selected.
PodArgs(pod) ==
  IF rev = "part_000" THEN <<pod.namespace, pod.name, pod.containerNames>>
  ELSE <<pod.namespace, pod.name, pod.containerNames, ResourceMap["Pod"]>>

DeploymentArgs(deployment) ==
  IF rev = "part_000" THEN <<deployment.namespace, deployment.name>>
  ELSE <<deployment.namespace, deployment.name, ResourceMap["Deployment"]>>

PersistentVolumeClaimArgs(persistentVolumeClaim) ==
  <<persistentVolumeClaim.namespace, persistentVolumeClaim.name,
    persistentVolumeClaim.capacity, ResourceMap["PersistentVolumeClaim"]>>

VolumeSnapshotArgs(volumeSnapshot) ==
  IF rev = "part_000" THEN <<volumeSnapshot.namespace, volumeSnapshot.name>>
  ELSE <<volumeSnapshot.namespace, volumeSnapshot.name, volumeSnapshot.volumeName,
         volumeSnapshot.capacity>>

ServiceArgs(service) == <<service.namespace, service.name, ResourceMap["Service"]>>

DaemonSetArgs(daemonSet) ==
  <<daemonSet.namespace, daemonSet.name, ResourceMap["DaemonSet"]>>

CronJobArgs(cronJob) == <<cronJob.namespace, cronJob.name, ResourceMap["CronJob"]>>

StatefulSetArgs(statefulSet) ==
  <<statefulSet.namespace, statefulSet.name, ResourceMap["StatefulSet"]>>

StorageClassArgs(storageClass) ==
  <<"", storageClass.name, ResourceMap["StorageClass"]>>

PersistentVolumeArgs(persistentVolume) ==
  IF rev = "part_000" THEN <<persistentVolume.name>>
  ELSE <<"", persistentVolume.name, ResourceMap["PersistentVolume"]>>

ArgsFor(capture, handle) ==
  CASE capture = "CapturePod" -> PodArgs(handle)
    [] capture = "CaptureDeployment" -> DeploymentArgs(handle)
    [] capture = "CapturePersistentVolumeClaim" -> PersistentVolumeClaimArgs(handle)
    [] capture = "CapturePersistentVolume" -> PersistentVolumeArgs(handle)
    [] capture = "CaptureVolumeSnapshot" -> VolumeSnapshotArgs(handle)
    [] capture = "CaptureService" -> ServiceArgs(handle)
    [] capture = "CaptureDaemonSet" -> DaemonSetArgs(handle)
    [] capture = "CaptureCronJob" -> CronJobArgs(handle)
    [] capture = "CaptureStatefulSet" -> StatefulSetArgs(handle)
    [] capture = "CaptureStorageClass" -> StorageClassArgs(handle)

\* An adapter that walks the cache before it looks at the result of the parse.
Capture_WalkFirst(req, capture, parsed, store, notFound) ==
  LET found == Walk(store, parsed.uid, <<>>)
  IN IF ~parsed.ok
     THEN Reply(Progress(req, capture, <<store>>, <<>>, <<>>),
                Did(<<>>, ResponseErrorf("Invalid ID: %s", req.nodeID)))
     ELSE IF found = <<>>
          THEN Reply(Progress(req, capture, <<store>>, <<>>, <<>>),
                     Did(<<>>, ResponseErrorf(notFound, parsed.uid)))
          ELSE LET f == handlers[req.control].f
                   args == ArgsFor(capture, found[1])
               IN Invoke(Progress(req, capture, <<store>>, found,
                                  <<Invocation(f, args)>>), f, args)

\* An adapter that invokes its continuation and returns xfer.Response{}
\* whatever the continuation answered.
Capture_DropsResponse(req, capture, parsed, store, notFound) ==
  IF ~parsed.ok
  THEN Reply(Progress(req, capture, <<>>, <<>>, <<>>),
             Did(<<>>, ResponseErrorf("Invalid ID: %s", req.nodeID)))
  ELSE LET found == Walk(store, parsed.uid, <<>>)
       IN IF found = <<>>
          THEN Reply(Progress(req, capture, <<store>>, <<>>, <<>>),
                     Did(<<>>, ResponseErrorf(notFound, parsed.uid)))
          ELSE LET f == handlers[req.control].f
                   args == ArgsFor(capture, found[1])
               IN \E err \in ClientResults :
                    Reply(Progress(req, capture, <<store>>, found,
                                   <<Invocation(f, args)>>),
                          Did(<<Call(f, args, err)>>, EmptyResponse))

\* The closure a Capture adapter returns, after the identifier is parsed:
\* parsed is the result of the adapter's Parse...NodeID, store the handles its
\* Walk... yields and notFound its message.
Capture(req, capture, parsed, store, notFound) ==
  IF ~parsed.ok
  THEN Reply(Progress(req, capture, <<>>, <<>>, <<>>),
             Did(<<>>, ResponseErrorf("Invalid ID: %s", req.nodeID)))
  ELSE LET found == Walk(store, parsed.uid, <<>>)
       IN IF found = <<>>
          THEN Reply(Progress(req, capture, <<store>>, <<>>, <<>>),
                     Did(<<>>, ResponseErrorf(notFound, parsed.uid)))
          ELSE LET f == handlers[req.control].f
                   args == ArgsFor(capture, found[1])
               IN Invoke(Progress(req, capture, <<store>>, found,
                                  <<Invocation(f, args)>>), f, args)

CapturePod(req) ==
  /\ d.pc = "idle"
  /\ Bound(req, "CapturePod")
  /\ Capture(req, "CapturePod", ParsePodNodeID(req.nodeID), cache,
             "Pod not found: %s")
  /\ UNCHANGED <<rev, phase, handlers, handlers0, cache>>

\* CaptureDeployment parsing the node identifier as a pod's.
CaptureDeployment_ParsesPodID(req) ==
  /\ d.pc = "idle"
  /\ Bound(req, "CaptureDeployment")
  /\ Capture(req, "CaptureDeployment", ParsePodNodeID(req.nodeID), cache,
             "Deployment not found: %s")
  /\ UNCHANGED <<rev, phase, handlers, handlers0, cache>>

CaptureDeployment(req) ==
  /\ d.pc = "idle"
  /\ Bound(req, "CaptureDeployment")
  /\ Capture(req, "CaptureDeployment", ParseDeploymentNodeID(req.nodeID), cache,
             "Deployment not found: %s")
  /\ UNCHANGED <<rev, phase, handlers, handlers0, cache>>

CapturePersistentVolumeClaim(req) ==
  /\ d.pc = "idle"
  /\ Bound(req, "CapturePersistentVolumeClaim")
  /\ Capture(req, "CapturePersistentVolumeClaim",
             ParsePersistentVolumeClaimNodeID(req.nodeID), cache,
             "Persistent volume claim not found: %s")
  /\ UNCHANGED <<rev, phase, handlers, handlers0, cache>>

CaptureVolumeSnapshot(req) ==
  /\ d.pc = "idle"
  /\ Bound(req, "CaptureVolumeSnapshot")
  /\ Capture(req, "CaptureVolumeSnapshot", ParseVolumeSnapshotNodeID(req.nodeID),
             cache,
             IF rev = "part_000" THEN "VolumeSnapshot not found: %s"
             ELSE "Volume snapshot not found: %s")
  /\ UNCHANGED <<rev, phase, handlers, handlers0, cache>>

CaptureService(req) ==
  /\ d.pc = "idle"
  /\ Bound(req, "CaptureService")
  /\ Capture(req, "CaptureService", ParseServiceNodeID(req.nodeID), cache,
             "Service not found: %s")
  /\ UNCHANGED <<rev, phase, handlers, handlers0, cache>>

CaptureDaemonSet(req) ==
  /\ d.pc = "idle"
  /\ Bound(req, "CaptureDaemonSet")
  /\ Capture(req, "CaptureDaemonSet", ParseDaemonSetNodeID(req.nodeID), cache,
             "Daemon Set not found: %s")
  /\ UNCHANGED <<rev, phase, handlers, handlers0, cache>>

CaptureCronJob(req) ==
  /\ d.pc = "idle"
  /\ Bound(req, "CaptureCronJob")
  /\ Capture(req, "CaptureCronJob", ParseCronJobNodeID(req.nodeID), cache,
             "Cron Job not found: %s")
  /\ UNCHANGED <<rev, phase, handlers, handlers0, cache>>

CaptureStatefulSet(req) ==
  /\ d.pc = "idle"
  /\ Bound(req, "CaptureStatefulSet")
  /\ Capture(req, "CaptureStatefulSet", ParseStatefulSetNodeID(req.nodeID), cache,
             "Stateful Set not found: %s")
  /\ UNCHANGED <<rev, phase, handlers, handlers0, cache>>

CaptureStorageClass(req) ==
  /\ d.pc = "idle"
  /\ Bound(req, "CaptureStorageClass")
  /\ Capture(req, "CaptureStorageClass", ParseStorageClassNodeID(req.nodeID), cache,
             "StorageClass not found: %s")
  /\ UNCHANGED <<rev, phase, handlers, handlers0, cache>>

CapturePersistentVolume(req) ==
  /\ d.pc = "idle"
  /\ Bound(req, "CapturePersistentVolume")
  /\ Capture(req, "CapturePersistentVolume",
             ParsePersistentVolumeNodeID(req.nodeID), cache,
             IF rev = "part_000" THEN "Persistent Volume not found: %s"
             ELSE "Persistent volume  not found: %s")
  /\ UNCHANGED <<rev, phase, handlers, handlers0, cache>>

\* HandleControlRequest when the registry has no handler for the control.
NotRecognised(req) ==
  /\ d.pc = "idle"
  /\ req.control \notin DOMAIN handlers
  /\ Reply(Progress(req, "", <<>>, <<>>, <<>>),
           Did(<<>>, ResponseErrorf("Control %q not recognised", <<req.control>>)))
  /\ UNCHANGED <<rev, phase, handlers, handlers0, cache>>

\* A closure whose captured handle outlives the dispatch.
Return_KeepsHandle ==
  /\ d.pc = "done"
  /\ d' = [Idle EXCEPT !.sel = d.sel]
  /\ UNCHANGED <<rev, phase, handlers, handlers0, cache, streams, pipes>>

\* The closure returns: the response has been handed to the caller and the
\* closure's variables (the request, the unique id, the handle) are gone.
Return ==
  /\ d.pc = "done"
  /\ d' = Idle
  /\ UNCHANGED <<rev, phase, handlers, handlers0, cache, streams, pipes>>

\* The external refresh of the cache.  A dispatch walks the cache in one step
\* and never reads it again, so a refresh during the later steps of a dispatch
\* is the same as one after it: the refresh is taken between dispatches.
Refresh(c) ==
  /\ d.pc = "idle"
  /\ c # cache
  /\ cache' = c
  /\ UNCHANGED <<rev, phase, handlers, handlers0, streams, pipes, d>>

-----------------------------------------------------------------------------
(* Registration                                                            *)

registerControls ==
  /\ phase = "new"
  /\ handlers' = Batch(handlers, <<>>, registerControlsMap(rev))
  /\ phase' = "running"
  /\ UNCHANGED <<rev, handlers0, cache, streams, pipes, d>>

deregisterControls ==
  /\ phase = "running"
  /\ handlers' = Batch(handlers, deregisterControlsList(rev), <<>>)
  /\ phase' = "stopped"
  /\ UNCHANGED <<rev, handlers0, cache, streams, pipes, d>>

-----------------------------------------------------------------------------

\* The requests the router can hand over now: any, once the dispatch before
\* has returned.
Incoming(requests) == IF d.pc = "idle" THEN requests ELSE {}

\* The dispatcher and the registration of its controls.  The pipes the
\* handlers register stay open here; SpecPipes closes them.
Next ==
  \/ registerControls
  \/ deregisterControls
  \/ \E req \in Incoming(Requests) : NotRecognised(req)
  \/ \E req \in Incoming(Requests) : CapturePod(req)
  \/ \E req \in Incoming(Requests) : CaptureDeployment(req)
  \/ \E req \in Incoming(Requests) : CapturePersistentVolumeClaim(req)
  \/ \E req \in Incoming(Requests) : CapturePersistentVolume(req)
  \/ \E req \in Incoming(Requests) : CaptureVolumeSnapshot(req)
  \/ \E req \in Incoming(Requests) : CaptureService(req)
  \/ \E req \in Incoming(Requests) : CaptureDaemonSet(req)
  \/ \E req \in Incoming(Requests) : CaptureCronJob(req)
  \/ \E req \in Incoming(Requests) : CaptureStatefulSet(req)
  \/ \E req \in Incoming(Requests) : CaptureStorageClass(req)
  \/ OnClose
  \/ Return
  \/ \E c \in Caches : Refresh(c)

Spec == Init /\ [][Next]_vars

\* The goroutine of a dispatch keeps running: a handler that has registered
\* its pipe goes on to pipe.OnClose and returns, and a response that is ready
\* is handed to the caller.
FairSpec == Spec /\ WF_vars(OnClose) /\ WF_vars(Return)

-----------------------------------------------------------------------------
(* The bridge with both sides of a pipe closing it                         *)

\* The continuations that bridge a stream into a pipe.
StreamHandlers == {"GetLogs", "describePod", "describePVC", "describe"}

\* The parse each adapter applies to the request's node identifier.
ParseFor(capture, id) ==
  CASE capture = "CapturePod" -> ParsePodNodeID(id)
    [] capture = "CaptureDeployment" -> ParseDeploymentNodeID(id)
    [] capture = "CapturePersistentVolumeClaim" -> ParsePersistentVolumeClaimNodeID(id)
    [] capture = "CapturePersistentVolume" -> ParsePersistentVolumeNodeID(id)
    [] capture = "CaptureVolumeSnapshot" -> ParseVolumeSnapshotNodeID(id)
    [] capture = "CaptureService" -> ParseServiceNodeID(id)
    [] capture = "CaptureDaemonSet" -> ParseDaemonSetNodeID(id)
    [] capture = "CaptureCronJob" -> ParseCronJobNodeID(id)
    [] capture = "CaptureStatefulSet" -> ParseStatefulSetNodeID(id)
    [] capture = "CaptureStorageClass" -> ParseStorageClassNodeID(id)

\* The requests that can open a stream: a control whose handler bridges one,
\* with a node identifier its adapter parses.
StreamRequests ==
  {req \in Requests :
     \E r \in Revisions :
       /\ req.control \in DOMAIN registerControlsMap(r)
       /\ registerControlsMap(r)[req.control].f \in StreamHandlers
       /\ ParseFor(registerControlsMap(r)[req.control].capture, req.nodeID).ok}

\* The reporter after registerControls, with nothing else in the registry.
InitPipes ==
  /\ rev \in Revisions
  /\ phase = "running"
  /\ handlers0 = <<>>
  /\ handlers = Batch(handlers0, <<>>, registerControlsMap(rev))
  /\ cache \in Caches
  /\ streams = <<>>
  /\ pipes = <<>>
  /\ d = Idle

NextPipes ==
  \/ \E req \in Incoming(StreamRequests) : CapturePod(req)
  \/ \E req \in Incoming(StreamRequests) : CaptureDeployment(req)
  \/ \E req \in Incoming(StreamRequests) : CapturePersistentVolumeClaim(req)
  \/ \E req \in Incoming(StreamRequests) : CapturePersistentVolume(req)
  \/ \E req \in Incoming(StreamRequests) : CaptureService(req)
  \/ \E req \in Incoming(StreamRequests) : CaptureDaemonSet(req)
  \/ \E req \in Incoming(StreamRequests) : CaptureCronJob(req)
  \/ \E req \in Incoming(StreamRequests) : CaptureStatefulSet(req)
  \/ \E req \in Incoming(StreamRequests) : CaptureStorageClass(req)
  \/ OnClose
  \/ Return
  \/ \E p \in 1..Len(pipes), side \in Sides : PipeClose(p, side)
  \/ \E p \in 1..Len(pipes) : RunOnClose(p)
  \/ \E c \in Caches : Refresh(c)

SpecPipes == InitPipes /\ [][NextPipes]_vars

-----------------------------------------------------------------------------
(* The bytes that go through a pipe                                        *)

\* The client puts the next byte into the stream s.
Produce(s) ==
  /\ streams[s].closes = 0
  /\ Len(streams[s].produced) < MaxBytes
  /\ streams' = [streams EXCEPT
                   ![s].produced = Append(@, Len(streams[s].produced) + 1),
                   ![s].unread = Append(@, Len(streams[s].produced) + 1)]
  /\ UNCHANGED <<rev, phase, handlers, handlers0, cache, pipes, d>>

\* The pipe copies a byte from its remote end, readWriter, to whoever reads
\* the pipe.
PipeRead(p) ==
  /\ ~pipes[p].closed
  /\ streams[pipes[p].remote].closes = 0
  /\ streams[pipes[p].remote].unread # <<>>
  /\ LET read == readWriterRead(streams[pipes[p].remote])
     IN /\ streams' = [streams EXCEPT ![pipes[p].remote] = read.stream]
        /\ pipes' = [pipes EXCEPT ![p].out = Append(@, read.byte)]
  /\ UNCHANGED <<rev, phase, handlers, handlers0, cache, d>>

\* The pipe copies a byte written to it to its remote end, readWriter.
PipeWrite(p, b) ==
  /\ ~pipes[p].closed
  /\ pipes[p].written < MaxWrites
  /\ streams' = [streams EXCEPT
                   ![pipes[p].remote] = readWriterWrite(streams[pipes[p].remote], b)]
  /\ pipes' = [pipes EXCEPT ![p].written = @ + 1]
  /\ UNCHANGED <<rev, phase, handlers, handlers0, cache, d>>

\* The requests for the controls of pods that open a stream.
PodStreamRequests == {req \in StreamRequests : ParsePodNodeID(req.nodeID).ok}

NextBytes ==
  \/ \E req \in Incoming(PodStreamRequests) : CapturePod(req)
  \/ OnClose
  \/ Return
  \/ \E s \in 1..Len(streams) : Produce(s)
  \/ \E p \in 1..Len(pipes) : PipeRead(p)
  \/ \E p \in 1..Len(pipes), b \in WrittenBytes : PipeWrite(p, b)
  \/ \E p \in 1..Len(pipes), side \in Sides : PipeClose(p, side)
  \/ \E p \in 1..Len(pipes) : RunOnClose(p)

\* The reporter after registerControls, its store holding one pod.
InitBytes == InitPipes /\ Len(cache) = 1

SpecBytes == InitBytes /\ [][NextBytes]_vars

-----------------------------------------------------------------------------
(* Properties                                                              *)

\* A dispatch reached a handler of this core and has made its decision.
Handled == d.pc \in {"onclose", "done"} /\ d.capture # ""

\* What the adapter of the dispatch parsed from the request's node identifier.
Parsed == ParseFor(d.capture, d.req.nodeID)

\* The places in the cache of the handles with the unique id uid.  The cache
\* is not refreshed while a dispatch is in flight, so it is the cache the
\* dispatch walked.
Matches(uid) == {i \in 1..Len(cache) : cache[i].uid = uid}

\* The last handle in walk order with the unique id uid.
LastMatch(uid) == cache[CHOOSE i \in Matches(uid) : \A j \in Matches(uid) : j <= i]

\* The not-found messages of the adapters.
NotFoundMessages ==
  {"Pod not found: %s", "Deployment not found: %s",
   "Persistent volume claim not found: %s", "Volume snapshot not found: %s",
   "VolumeSnapshot not found: %s", "Service not found: %s",
   "Daemon Set not found: %s", "Cron Job not found: %s",
   "Stateful Set not found: %s", "StorageClass not found: %s",
   "Persistent volume  not found: %s", "Persistent Volume not found: %s"}

\* C1: when the client returned a stream and NewPipeFromEnds failed, the
\* stream has been closed by the time the error response is returned.
C1_StreamClosedOnPipeError ==
  (d.pc = "done" /\ d.pipeErr) => streams[d.stream].closes >= 1

\* C2: registerControls followed by deregisterControls leaves the registry as
\* it was before: every id registerControls added is removed again and no
\* unrelated id is added, removed or rebound.
C2_RegisterThenDeregisterRestores ==
  phase = "stopped" => handlers = handlers0

\* C3: the identifier decodes and no handle of the cache has the decoded
\* unique id: the dispatch returns a not-found error, invokes no continuation
\* and, the one walk aside, does nothing on the client.
C3_NotFound ==
  (Handled /\ Parsed.ok /\ Matches(Parsed.uid) = {}) =>
    /\ d.pc = "done"
    /\ Populated(d.resp) = {"error"}
    /\ \E m \in NotFoundMessages : d.resp.error = <<m>> \o Parsed.uid
    /\ d.cont = <<>>
    /\ d.calls = <<>>
    /\ Len(d.walked) = 1
    /\ d.stream = 0 /\ d.pipe = 0

\* C3 witness: a not-found reply from a walk of a cache that holds handles.
C3_Witness ==
  /\ d.pc = "done" /\ d.capture = "CaptureStorageClass"
  /\ Parsed.ok /\ Matches(Parsed.uid) = {} /\ cache # <<>>
  /\ d.walked = <<cache>>
  /\ d.resp.error = <<"StorageClass not found: %s", "zzz">>

\* C4: the identifier does not decode under the adapter's kind: the dispatch
\* returns the invalid-identifier error at once, without a walk of the cache,
\* a continuation or a call on the client.
C4_InvalidID ==
  (Handled /\ ~Parsed.ok) =>
    /\ d.pc = "done"
    /\ d.resp = [EmptyResponse EXCEPT !.error = <<"Invalid ID: %s">> \o d.req.nodeID]
    /\ d.walked = <<>>
    /\ d.cont = <<>>
    /\ d.calls = <<>>
    /\ d.stream = 0 /\ d.pipe = 0

\* C4 witness: a deployment's identifier sent to a volume snapshot control
\* while the cache holds a handle with the same unique id.
C4_Witness ==
  /\ d.pc = "done" /\ d.capture = "CaptureVolumeSnapshot"
  /\ d.req.nodeID = makeSingleComponentID(KindTag["Deployment"], <<"abc">>)
  /\ Matches(<<"abc">>) # {}
  /\ "error" \in Populated(d.resp)

\* C5: once a close of a registered pipe has finished, the close of the
\* stream behind the pipe has been executed exactly once, whichever sides
\* closed the pipe and however often; it is never executed twice.
C5_StreamClosedExactlyOnce ==
  /\ \A s \in 1..Len(streams) : streams[s].closes <= 1
  /\ \A p \in 1..Len(pipes) :
       (pipes[p].closed /\ pipes[p].running = 0 /\ ~(d.pc = "onclose" /\ d.pipe = p))
         => streams[pipes[p].remote].closes = 1

\* C6: the control ids of this core that the registry binds are none of them
\* or all of them, at every point at which a dispatcher can look one up.
C6_AllOrNothing ==
  LET mine == DOMAIN registerControlsMap(rev)
  IN DOMAIN handlers \cap mine \in {{}, mine}

\* C7 as stated: every response has exactly one populated field.
C7_ExactlyOnePopulated ==
  d.pc = "done" => Cardinality(Populated(d.resp)) = 1

\* The client operations whose handlers answer a success with xfer.Response{}.
EmptyOnSuccess == {"ScaleUp", "ScaleDown", "CloneVolumeSnapshot", "CreateVolumeSnapshot"}

\* C7 as amended: every response has at most one populated field, and the
\* handlers of scale-up, scale-down, clone- and create-volume-snapshot return
\* the response with none when the client call succeeds.
C7_AtMostOnePopulated ==
  d.pc = "done" =>
    /\ Cardinality(Populated(d.resp)) <= 1
    /\ (/\ Len(d.calls) = 1
        /\ d.calls[1].op \in EmptyOnSuccess
        /\ d.calls[1].err.isNil) => Populated(d.resp) = {}

\* C7 witness: a scale-up that succeeded and returned the empty response.
C7_Witness ==
  /\ d.pc = "done" /\ d.req.control = "ScaleUp"
  /\ Len(d.calls) = 1 /\ d.calls[1].op = "ScaleUp" /\ d.calls[1].err.isNil
  /\ Populated(d.resp) = {}

\* C8: when several handles share the decoded unique id, the continuation is
\* invoked with the attributes of the last of them in walk order.
C8_LastMatchWins ==
  (Handled /\ d.cont # <<>>) =>
    /\ Parsed.ok
    /\ Matches(Parsed.uid) # {}
    /\ d.sel = <<LastMatch(Parsed.uid)>>
    /\ Len(d.cont) = 1
    /\ d.cont[1].args = ArgsFor(d.capture, LastMatch(Parsed.uid))

\* C8 witness: a continuation invoked after a walk over two different handles
\* with the unique id of the request.
C8_Witness ==
  /\ Handled /\ d.cont # <<>>
  /\ Len(cache) = 2 /\ cache[1] # cache[2]
  /\ Matches(Parsed.uid) = {1, 2}
  /\ d.sel = <<cache[2]>>

\* The delete control calls the client's op once with (namespace, name) of the
\* handle found for the parsed unique id, and answers a success with the
\* request's node identifier as removed node and nothing else.
DeletesOnce(control, op, parsed) ==
  (Handled /\ d.req.control = control /\ parsed.ok /\ Matches(parsed.uid) # {}) =>
    /\ d.pc = "done"
    /\ Len(d.calls) = 1
    /\ d.calls[1].op = op
    /\ d.calls[1].args = <<LastMatch(parsed.uid).namespace, LastMatch(parsed.uid).name>>
    /\ d.calls[1].err.isNil =>
         d.resp = [EmptyResponse EXCEPT !.removedNode = d.req.nodeID]

\* C9: delete-pod on a pod of the cache calls DeletePod once with the pod's
\* (namespace, name) and on success returns the request's node identifier as
\* removed node, nothing else; the same for delete-volume-snapshot.
C9_DeleteRemovesNode ==
  /\ DeletesOnce("DeletePod", "DeletePod", ParsePodNodeID(d.req.nodeID))
  /\ DeletesOnce("DeleteVolumeSnapshot", "DeleteVolumeSnapshot",
                 ParseVolumeSnapshotNodeID(d.req.nodeID))

\* C9 witness: a delete-pod that succeeded on the second of two pods.
C9_Witness ==
  /\ d.pc = "done" /\ d.req.control = "DeletePod"
  /\ Len(cache) = 2 /\ cache[1] # cache[2]
  /\ Len(d.calls) = 1 /\ d.calls[1].err.isNil
  /\ d.calls[1].args = <<cache[2].namespace, cache[2].name>>
  /\ d.resp.removedNode = d.req.nodeID /\ d.req.nodeID # <<>>

\* C10: a snapshot-creation control whose client call succeeded returns the
\* request's control identifier as its value.
C10_SnapshotCreationAcknowledged ==
  (/\ d.pc = "done"
   /\ Len(d.calls) = 1
   /\ d.calls[1].op \in {"CreateSnapshot", "CreateVolumeSnapshot"}
   /\ d.calls[1].err.isNil) => d.resp.value = <<d.req.control>>

\* C11: a dispatch whose adapter selected a handle has called the client
\* exactly once, whether the call succeeded or failed; a dispatch that
\* selected none has not called it.
C11_OneClientCall ==
  (d.pc \in {"onclose", "done"}) =>
    /\ (Handled /\ d.sel # <<>>) => Len(d.calls) = 1
    /\ d.sel = <<>> => d.calls = <<>>

\* C11 witness: a scale-down whose one call on the client failed.
C11_Witness ==
  /\ d.pc = "done" /\ d.req.control = "ScaleDown" /\ d.sel # <<>>
  /\ Len(d.calls) = 1 /\ d.calls[1].op = "ScaleDown" /\ ~d.calls[1].err.isNil

\* C12: when the client's operation failed, the response is the error with
\* the client's message and nothing else, and the dispatch has no stream and
\* registered no pipe.
C12_ClientErrorVerbatim ==
  (d.pc \in {"onclose", "done"} /\ d.calls # <<>> /\ ~d.calls[1].err.isNil) =>
    /\ d.pc = "done"
    /\ d.resp = [EmptyResponse EXCEPT !.error = d.calls[1].err.msg]
    /\ d.stream = 0 /\ d.pipe = 0 /\ ~d.pipeErr

\* C12 witness: a GetLogs whose client call failed with "denied".
C12_Witness ==
  /\ d.pc = "done" /\ d.req.control = "GetLogs"
  /\ Len(d.calls) = 1 /\ d.calls[1].err = Error(<<"denied">>)
  /\ d.resp.error = <<"denied">> /\ pipes = <<>>

\* The resource kind whose store an adapter walks.
AdapterKind(capture) ==
  CASE capture = "CapturePod" -> "Pod"
    [] capture = "CaptureDeployment" -> "Deployment"
    [] capture = "CapturePersistentVolumeClaim" -> "PersistentVolumeClaim"
    [] capture = "CapturePersistentVolume" -> "PersistentVolume"
    [] capture = "CaptureVolumeSnapshot" -> "VolumeSnapshot"
    [] capture = "CaptureService" -> "Service"
    [] capture = "CaptureDaemonSet" -> "DaemonSet"
    [] capture = "CaptureCronJob" -> "CronJob"
    [] capture = "CaptureStatefulSet" -> "StatefulSet"
    [] capture = "CaptureStorageClass" -> "StorageClass"

\* id is the node identifier of a resource of kind k.
EncodesKind(id, k) == \E u \in UIDs : id = makeSingleComponentID(KindTag[k], u)

\* C13: a node identifier of another kind than the adapter's is answered with
\* the invalid-identifier error, and the dispatch selects no handle, invokes
\* no continuation and calls the client for nothing, whatever the cache holds.
C13_WrongKindInvalid ==
  Handled =>
    \A k \in Kinds \ {AdapterKind(d.capture)} :
      EncodesKind(d.req.nodeID, k) =>
        /\ d.pc = "done"
        /\ d.resp = ResponseErrorf("Invalid ID: %s", d.req.nodeID)
        /\ d.sel = <<>> /\ d.cont = <<>> /\ d.calls = <<>>
        /\ d.stream = 0 /\ d.pipe = 0

\* C13 witness: the identifier of pod abc sent to scale-up, a control of the
\* deployment adapter, while the cache holds a handle with the unique id abc.
C13_Witness ==
  /\ d.pc = "done" /\ d.req.control = "ScaleUp" /\ d.capture = "CaptureDeployment"
  /\ d.req.nodeID = makeSingleComponentID(KindTag["Pod"], <<"abc">>)
  /\ Matches(<<"abc">>) # {}
  /\ d.resp.error = <<"Invalid ID: %s", "abc", ScopeDelim, KindTag["Pod"]>>

\* C14: what has been read from a pipe, followed by what its stream still
\* holds unread, is what the client put into the stream, byte for byte and in
\* order, however many bytes were written to the pipe.
C14_PipeCarriesStream ==
  \A p \in 1..Len(pipes) :
    pipes[p].out \o streams[pipes[p].remote].unread = streams[pipes[p].remote].produced

\* C14 witness: a pipe returned by GetLogs from which both bytes of its stream
\* have been read, in the order they were produced, and to which a byte was
\* written.
C14_Witness ==
  /\ d.pc = "done" /\ d.req.control = "GetLogs" /\ d.pipe # 0
  /\ d.resp.pipe = PipeID(d.pipe)
  /\ pipes[d.pipe].out = <<1, 2>>
  /\ streams[d.stream].produced = <<1, 2>>
  /\ streams[d.stream].unread = <<>>
  /\ pipes[d.pipe].written >= 1

\* The steps of one dispatch: a handler that has registered its pipe goes on
\* to return the response of the same request, and a response that is ready
\* stays as it is until it is handed over, once.
DispatchStep ==
  /\ d.pc = "onclose" => (d'.pc \in {"onclose", "done"} /\ d'.req = d.req)
  /\ d.pc = "done" => (d' = d \/ d' = Idle)

\* C15: every dispatch returns: it ends with one response handed to the
\* caller, on every path, and none stays inside a handler for ever.
C15_DispatchReturns ==
  /\ [][DispatchStep]_vars
  /\ (d.pc # "idle") ~> (d.pc = "idle")

\* C15 witness: a describe of a storage class is about to return the pipe it
\* registered.
C15_Witness ==
  /\ d.pc = "done" /\ d.req.control = "DescribeSC"
  /\ d.resp = [EmptyResponse EXCEPT !.pipe = PipeID(d.pipe)] /\ d.pipe # 0

\* The dispatch in hand is one of a volume snapshot control on the node
\* identifier GetNode publishes for the i-th handle of the cache.
PublishedFor(i) ==
  /\ Handled /\ d.capture = "CaptureVolumeSnapshot"
  /\ \E probeID \in ProbeIDs : d.req.nodeID = GetNode(cache[i], probeID).id

ContinuationResponses(f, req, args, err) ==
  CASE f \in StreamHandlers ->
         IF ~err.isNil THEN {ResponseError(err)}
         ELSE IF d.pipeErr THEN {ResponseError(Error(m)) : m \in ErrMsgs}
         ELSE {[EmptyResponse EXCEPT !.pipe = PipeID(d.pipe)]}
    [] f = "cloneVolumeSnapshot" ->
         {cloneVolumeSnapshot(req, args[1], args[2], args[3], args[4], err).resp}
    [] f = "createVolumeSnapshot" ->
         {createVolumeSnapshot(req, args[1], args[2], args[3], err).resp}
    [] f = "createSnapshot" -> {createSnapshot(req, args[1], err).resp}
    [] f = "deletePod" -> {deletePod(req, args[1], args[2], err).resp}
    [] f = "deleteVolumeSnapshot" ->
         {deleteVolumeSnapshot(req, args[1], args[2], err).resp}
    [] f = "ScaleUp" -> {ScaleUp(req, args[1], args[2], err).resp}
    [] f = "ScaleDown" -> {ScaleDown(req, args[1], args[2], err).resp}

\* C17: when the walk matched a handle, the adapter has invoked the
\* continuation its control was registered with once, with the attributes of
\* the handle it selected, and the response of the dispatch is the response
\* of that continuation.
C17_ContinuationResponseUnchanged ==
  (Handled /\ Parsed.ok /\ Matches(Parsed.uid) # {}) =>
    LET f == registerControlsMap(rev)[d.req.control].f
    IN /\ Len(d.sel) = 1
       /\ d.cont = <<Invocation(f, ArgsFor(d.capture, d.sel[1]))>>
       /\ Len(d.calls) = 1
       /\ d.pc = "done" =>
            d.resp \in ContinuationResponses(f, d.req, d.cont[1].args, d.calls[1].err)

\* C17 witness: clone-volume-snapshot on a cached snapshot, the client
\* refusing with "boom", and the dispatch answering that error.
C17_Witness ==
  /\ d.pc = "done" /\ d.req.control = "CloneVolumeSnapshot"
  /\ Len(d.cont) = 1 /\ d.cont[1].f = "cloneVolumeSnapshot"
  /\ d.cont[1].args = <<d.sel[1].namespace, d.sel[1].name, d.sel[1].volumeName,
                        d.sel[1].capacity>>
  /\ d.resp = [EmptyResponse EXCEPT !.error = <<"boom">>]

C19_NoHandlerAfterDeregister ==
  [][(/\ phase = "stopped"
      /\ d.pc = "idle" /\ d'.pc # "idle"
      /\ d'.req.control \in DOMAIN registerControlsMap(rev))
       => (/\ d'.capture = "" /\ d'.calls = <<>>
           /\ streams' = streams /\ pipes' = pipes)]_vars

\* C20: a stream is closed only after the pipe it was bridged into has been
\* closed: while the pipe a handler returned is open, and so when the handler
\* returns its id, the stream is open.
C20_StreamOpenUntilPipeClosed ==
  /\ \A s \in 1..Len(streams) :
       streams[s].closes > 0 =>
         \E p \in 1..Len(pipes) : pipes[p].remote = s /\ pipes[p].closed
  /\ (d.pc = "done" /\ d.pipe # 0 /\ ~pipes[d.pipe].closed) =>
       (d.resp.pipe = PipeID(d.pipe) /\ streams[d.stream].closes = 0)

\* C20 witness: the local side closed a pipe whose handler had returned, and
\* the stream behind it was closed then.
C20_Witness ==
  /\ Len(pipes) = 1 /\ pipes[1].closed /\ pipes[1].closedBy = "local"
  /\ pipes[1].onClose = pipes[1].remote
  /\ streams[pipes[1].remote].closes = 1

\* The controls the node published for the i-th handle of the cache
\* advertises as active.
Advertised(i) ==
  UNION {GetNode(cache[i], probeID).activeControls : probeID \in ProbeIDs}

\* The dispatch in hand is one of a control advertised on the node published
\* for the i-th handle of the cache, on that node's identifier, and it reached
\* a handler of this core.
AdvertisedDispatch(i) ==
  /\ Handled /\ d.req.control \in Advertised(i)
  /\ \E probeID \in ProbeIDs : d.req.nodeID = GetNode(cache[i], probeID).id

\* While the registry is active, every control a published volume snapshot
\* node advertises is bound to deleteVolumeSnapshot behind the volume snapshot
\* adapter.
AdvertisedBound ==
  phase = "running" =>
    \A i \in 1..Len(cache) :
      \A c \in Advertised(i) :
        /\ c \in DOMAIN handlers
        /\ handlers[c] = Handler("CaptureVolumeSnapshot", "deleteVolumeSnapshot")

\* The dispatch in hand went through the volume snapshot adapter to
\* deleteVolumeSnapshot, which called the client for the snapshot h.
DeletesSnapshot(h) ==
  /\ d.pc = "done" /\ d.capture = "CaptureVolumeSnapshot"
  /\ d.sel = <<h>>
  /\ d.cont = <<Invocation("deleteVolumeSnapshot", VolumeSnapshotArgs(h))>>
  /\ d.calls = <<Call("DeleteVolumeSnapshot", <<h.namespace, h.name>>, d.calls[1].err)>>

\* C21 as stated: the advertised control is bound to the adapter of the
\* node's kind, and dispatching it with the node's identifier reaches
\* deleteVolumeSnapshot for the snapshot the node was published for.
C21_AdvertisedReachesItsSnapshot ==
  /\ AdvertisedBound
  /\ \A i \in 1..Len(cache) : AdvertisedDispatch(i) => DeletesSnapshot(cache[i])

\* C21 as amended: the advertised control is bound to the adapter of the
\* node's kind, and dispatching it with the node's identifier reaches
\* deleteVolumeSnapshot for the last cached snapshot with the node's unique
\* id: for the snapshot the node was published for when no later one shares
\* its unique id.
C21_AdvertisedControlBound ==
  /\ AdvertisedBound
  /\ \A i \in 1..Len(cache) :
       AdvertisedDispatch(i) =>
         /\ DeletesSnapshot(LastMatch(cache[i].uid))
         /\ (\A j \in (i + 1)..Len(cache) : cache[j].uid # cache[i].uid)
              => DeletesSnapshot(cache[i])

\* C21 witness: while the registry is active, the control advertised on the
\* node of the only cached snapshot is dispatched with that node's identifier
\* and deletes that snapshot.
C21_Witness ==
  /\ phase = "running" /\ Len(cache) = 1
  /\ AdvertisedDispatch(1) /\ DeletesSnapshot(cache[1])
  /\ d.calls[1].err.isNil
  /\ d.resp = [EmptyResponse EXCEPT !.removedNode = GetNode(cache[1], "probe1").id]

====
